---- MODULE Spec2Model ----
(***************************************************************************)
(* The chat widget of siri-118/bankbot, in its three versions:             *)
(*   "us" = src/static/user-script.js  (typing bubble, reply_html, cues,   *)
(*          keyboard shortcuts, Ctrl/Cmd+Enter)                            *)
(*   "p0" = src/unnamed/part_000       (reply_html, no cues, no shortcuts) *)
(*   "p1" = src/unnamed/part_001       (plain-text replies, cues,          *)
(*          shortcuts)                                                     *)
(* One behaviour of the model is one page load of one version: the page    *)
(* (which elements exist) and the version are fixed by Init, which is the  *)
(* state right after the ready callback has run.  Every DOM event, every   *)
(* settlement of a fetch / res.json() promise and every timer expiry is    *)
(* one action (one turn of the browser's single event loop).               *)
(*                                                                         *)
(* Text is a sequence of characters; the fixed messages of the code are    *)
(* one-symbol sequences.  A log entry is a DOM node: its class, its text,  *)
(* whether the text was set as markup (innerHTML) or as plain text         *)
(* (textContent), and, for a typing bubble, the send that holds the        *)
(* reference to it (so that typing.remove() removes that very node).       *)
(***************************************************************************)
EXTENDS Integers, Sequences, FiniteSets, TLC

VARIABLES
  variant,        \* which version of the script the page loads
  present,        \* the element ids the page contains
  listeners,      \* the listeners the ready callback attached
  console,        \* the kinds of console diagnostics written so far
  panelHidden,    \* #chat-panel carries the class "hidden"
  greeted,        \* log.dataset.greeted is set
  focused,        \* input.focus() has been called
  log,            \* the children of #chat-log, in order
  input,          \* input.value
  inflight,       \* sendMsg invocations suspended at an await, by send number
  nextId,         \* number of the next sendMsg invocation that posts
  posts,          \* the bodies of the POST /chat requests issued, in order
  cue,            \* highlight state of #balance-amount and #txn-body
  timers,         \* pending setTimeout callbacks per cue target
  lastEvent       \* history: the event handled by the last step

vars == <<variant, present, listeners, console, panelHidden, greeted, focused,
          log, input, inflight, nextId, posts, cue, timers, lastEvent>>

----------------------------------------------------------------------------
(* Bounds of the model *)

\* sendMsg invocations that post, per page load
MaxSends == 2
\* characters the user can have in the input field
MaxLen == 1

----------------------------------------------------------------------------
(* The page and the inputs *)

Variants == {"us", "p0", "p1"}

Required == {"chat-fab", "chat-panel", "chat-send", "chat-text", "chat-log"}
Optional == {"chat-close", "balance-amount", "txn-body"}
Elements == Required \cup Optional

Targets == {"balance-amount", "txn-body"}

Chars == {" ", "a"}
Whitespace == {" "}

RECURSIVE SeqsUpTo(_)
SeqsUpTo(n) ==
  IF n = 0 THEN {<<>>}
  ELSE LET shorter == SeqsUpTo(n - 1)
       IN  shorter \cup {Append(s, c) : s \in {t \in shorter : Len(t) = n - 1}, c \in Chars}

\* what the input field can hold: the texts of up to MaxLen characters, and
\* the non-blank ones among them with a blank typed before and after
Padded(s) == <<" ">> \o s \o <<" ">>
Inputs ==
  SeqsUpTo(MaxLen)
    \cup {Padded(s) : s \in {t \in SeqsUpTo(MaxLen) : \E i \in 1..Len(t) : t[i] \notin Whitespace}}

\* the key presses a step can deliver: key is e.key, shift is e.shiftKey and
\* mod tells which of e.ctrlKey / e.metaKey is down ("none", "ctrl", "meta")
Press(key, shift, mod) == [key |-> key, shift |-> shift, mod |-> mod]
KeyPresses == { Press("Enter", FALSE, "none"), Press("Enter", TRUE, "none"),
                Press("Enter", FALSE, "ctrl"), Press("Enter", TRUE, "meta"),
                Press("Escape", FALSE, "none"),
                Press("b", FALSE, "ctrl"), Press("B", TRUE, "meta"),
                Press("b", FALSE, "none") }

\* content-type header values, as sequences of tokens; <<>> is a missing header
ContentTypes == { <<"application/json">>,
                  <<"application/json", ";", "charset=utf-8">>,
                  <<"text/html", ";", "charset=utf-8">>,
                  <<>> }

Replies == { <<>>, <<"4", "2">> }
ReplyHtmls == { <<>>, <<"<b>42</b>">> }
Actions == {"", "show_balance", "show_last_txns", "show_cards"}

\* a parsed JSON body; absent members are <<>> / ""; Null is the JSON value null
Bodies == [isNull : {FALSE}, reply : Replies, reply_html : ReplyHtmls, action : Actions]
NoBody == [isNull |-> FALSE, reply |-> <<>>, reply_html |-> <<>>, action |-> ""]
Null == [isNull |-> TRUE, reply |-> <<>>, reply_html |-> <<>>, action |-> ""]
JsonValues == Bodies \cup {Null}

----------------------------------------------------------------------------
(* The fixed messages *)

Ellipsis == <<"...">>
TypingText == <<"typing...">>

GreetingText(v) == IF v = "p1" THEN <<"Hi! I'm here to help">> ELSE <<"Hello! Ask me about">>
ExpiredText(v) == IF v = "p1" THEN <<"Session expired or server error">>
                  ELSE <<"(!) Session expired or server error">>
NetErrText(v) == IF v = "p1" THEN <<"Network error">> ELSE <<"(!) Network error">>

----------------------------------------------------------------------------
(* Pure helpers *)

\* String.prototype.trim
RECURSIVE trimStart(_)
trimStart(s) ==
  IF s # <<>> /\ Head(s) \in Whitespace THEN trimStart(Tail(s)) ELSE s

RECURSIVE trimEnd(_)
trimEnd(s) ==
  IF s # <<>> /\ s[Len(s)] \in Whitespace THEN trimEnd(SubSeq(s, 1, Len(s) - 1)) ELSE s

trim(s) == trimEnd(trimStart(s))

\* ct.includes("application/json")
includes(ct, tok) == \E i \in 1..Len(ct) : ct[i] = tok

\* e.key.toLowerCase()
toLowerCase(k) ==
  CASE k = "Enter" -> "enter"
    [] k = "Escape" -> "escape"
    [] k = "B" -> "b"
    [] OTHER -> k

\* a || b on strings: the empty string is falsy
OrElse(a, b) == IF a # <<>> THEN a ELSE b

\* the DOM node addMsg builds
MsgNode(v, text, who) ==
  [ cls    |-> IF who = "me" THEN "msg me" ELSE "msg bot",
    text   |-> OrElse(text, Ellipsis),
    markup |-> (who # "me" /\ v # "p1"),
    owner  |-> 0 ]

\* addMsg as it would be if it inserted the node before the first child
addMsgFirst(v, lg, text, who) == <<MsgNode(v, text, who)>> \o lg

\* addMsg(text, who): the log with the new node appended
addMsg(v, lg, text, who) == Append(lg, MsgNode(v, text, who))

\* the node showTyping builds for send number id
TypingNode(id) ==
  [cls |-> "msg bot typing", text |-> TypingText, markup |-> FALSE, owner |-> id]

showTyping(lg, id) == Append(lg, TypingNode(id))

\* typing.remove() as it would be if it did nothing
removeTypingNever(v, lg, id) == lg

\* typing.remove() for the bubble of send number id (no effect when detached)
removeTyping(v, lg, id) ==
  IF v = "us" THEN SelectSeq(lg, LAMBDA n : ~(n.cls = "msg bot typing" /\ n.owner = id))
  ELSE lg

\* the guard as it would be without the test of the log
hasRequiredButLog(p) ==
  /\ "chat-fab" \in p
  /\ "chat-panel" \in p
  /\ "chat-send" \in p
  /\ "chat-text" \in p

\* the guard as it would be if it tested the close button too
hasRequiredAndClose(p) ==
  /\ "chat-fab" \in p
  /\ "chat-panel" \in p
  /\ "chat-close" \in p
  /\ "chat-send" \in p
  /\ "chat-text" \in p
  /\ "chat-log" \in p

\* the guard of the ready callback: the widget gives up unless this holds
hasRequired(p) ==
  /\ "chat-fab" \in p
  /\ "chat-panel" \in p
  /\ "chat-send" \in p
  /\ "chat-text" \in p
  /\ "chat-log" \in p

\* the listeners the ready callback attaches
ready(v, p) ==
  IF ~hasRequired(p) THEN {}
  ELSE {"fab.click", "send.click", "input.keydown"}
       \cup (IF "chat-close" \in p THEN {"close.click"} ELSE {})
       \cup (IF v # "p0" THEN {"document.keydown"} ELSE {})

\* what the ready callback writes to the console
readyConsole(p) == IF hasRequired(p) THEN {"log: initialized"} ELSE {"error: missing elements"}

----------------------------------------------------------------------------
(* The operations of the widget, as functions of the part of the state they
   read and write *)

\* openPanel as it would be without the test of log.dataset.greeted
openPanelAlways(v, P) ==
  [ hidden  |-> FALSE,
    greeted |-> TRUE,
    focused |-> TRUE,
    log     |-> addMsg(v, P.log, GreetingText(v), "bot") ]

\* openPanel on P = [hidden, greeted, focused, log]
openPanel(v, P) ==
  [ hidden  |-> FALSE,
    greeted |-> TRUE,
    focused |-> TRUE,
    log     |-> IF ~P.greeted THEN addMsg(v, P.log, GreetingText(v), "bot") ELSE P.log ]

\* closePanel on P
closePanel(P) == [P EXCEPT !.hidden = TRUE]

\* a sendMsg invocation suspended at `await fetch(...)` ("fetch") or at
\* `await res.json()` ("json"); text is its closure variable, its typing
\* bubble is the node owned by its number.  base (the log when it was called)
\* and alone (no other invocation was suspended then) are history fields.
Request(text, base, alone) ==
  [text |-> text, stage |-> "fetch", base |-> base, alone |-> alone]

\* sendMsg as it would be if it posted input.value as it is
sendMsgRawBody(v, W) ==
  LET text == trim(W.input)
      id   == W.nextId
      lg1  == addMsg(v, W.log, text, "me")
  IN  IF text = <<>> THEN W
      ELSE [ log      |-> IF v = "us" THEN showTyping(lg1, id) ELSE lg1,
             input    |-> <<>>,
             inflight |-> [i \in DOMAIN W.inflight \cup {id} |->
                             IF i = id THEN Request(text, W.log, DOMAIN W.inflight = {})
                             ELSE W.inflight[i]],
             nextId   |-> id + 1,
             posts    |-> Append(W.posts, [message |-> W.input]) ]

\* sendMsg as it would be if it left input.value as it is
sendMsgKeepInput(v, W) ==
  LET text == trim(W.input)
      id   == W.nextId
      lg1  == addMsg(v, W.log, text, "me")
  IN  IF text = <<>> THEN W
      ELSE [ log      |-> IF v = "us" THEN showTyping(lg1, id) ELSE lg1,
             input    |-> W.input,
             inflight |-> [i \in DOMAIN W.inflight \cup {id} |->
                             IF i = id THEN Request(text, W.log, DOMAIN W.inflight = {})
                             ELSE W.inflight[i]],
             nextId   |-> id + 1,
             posts    |-> Append(W.posts, [message |-> text]) ]

\* sendMsg as it would be if it refused to post while a request is in flight
sendMsgLocked(v, W) ==
  LET text == trim(W.input)
      id   == W.nextId
      lg1  == addMsg(v, W.log, text, "me")
  IN  IF text = <<>> \/ DOMAIN W.inflight # {} THEN W
      ELSE [ log      |-> IF v = "us" THEN showTyping(lg1, id) ELSE lg1,
             input    |-> <<>>,
             inflight |-> [i \in DOMAIN W.inflight \cup {id} |->
                             IF i = id THEN Request(text, W.log, DOMAIN W.inflight = {})
                             ELSE W.inflight[i]],
             nextId   |-> id + 1,
             posts    |-> Append(W.posts, [message |-> text]) ]

\* sendMsg as it would be if it tested input.value without trimming it
sendMsgUntrimmed(v, W) ==
  LET text == W.input
      id   == W.nextId
      lg1  == addMsg(v, W.log, text, "me")
  IN  IF text = <<>> THEN W
      ELSE [ log      |-> IF v = "us" THEN showTyping(lg1, id) ELSE lg1,
             input    |-> <<>>,
             inflight |-> [i \in DOMAIN W.inflight \cup {id} |->
                             IF i = id THEN Request(text, W.log, DOMAIN W.inflight = {})
                             ELSE W.inflight[i]],
             nextId   |-> id + 1,
             posts    |-> Append(W.posts, [message |-> text]) ]

\* sendMsg up to its first await, on W = [log, input, inflight, nextId, posts]
sendMsg(v, W) ==
  LET text == trim(W.input)
      id   == W.nextId
      lg1  == addMsg(v, W.log, text, "me")
  IN  IF text = <<>> THEN W
      ELSE [ log      |-> IF v = "us" THEN showTyping(lg1, id) ELSE lg1,
             input    |-> <<>>,
             inflight |-> [i \in DOMAIN W.inflight \cup {id} |->
                             IF i = id THEN Request(text, W.log, DOMAIN W.inflight = {})
                             ELSE W.inflight[i]],
             nextId   |-> id + 1,
             posts    |-> Append(W.posts, [message |-> text]) ]

\* the keydown listener of the input: how many times it calls sendMsg
sendCalls(v, e) ==
  IF v = "us"
  THEN (IF e.key = "Enter" /\ ~e.shift THEN 1 ELSE 0)
       + (IF e.mod # "none" /\ toLowerCase(e.key) = "enter" THEN 1 ELSE 0)
  ELSE (IF e.key = "Enter" THEN 1 ELSE 0)

inputKeydown(v, W, e) ==
  LET n == sendCalls(v, e)
  IN  IF n = 0 THEN W
      ELSE IF n = 1 THEN sendMsg(v, W)
      ELSE sendMsg(v, sendMsg(v, W))

\* the document listener as it would be if it compared e.key with "b" as is
documentKeydownCaseSensitive(v, P, e) ==
  LET P1 == IF e.key = "Escape" THEN closePanel(P) ELSE P
  IN  IF e.mod # "none" /\ e.key = "b" THEN openPanel(v, P1) ELSE P1

\* the keydown listener of the document (versions "us" and "p1")
documentKeydown(v, P, e) ==
  LET P1 == IF e.key = "Escape" THEN closePanel(P) ELSE P
  IN  IF e.mod # "none" /\ toLowerCase(e.key) = "b" THEN openPanel(v, P1) ELSE P1

\* settling as it would be if the invocation stayed suspended
settleNever(fl, id) == fl

\* inflight without send number id: its sendMsg invocation has returned
settle(fl, id) == [i \in DOMAIN fl \ {id} |-> fl[i]]

\* the catch block as it would be without typing.remove()
catchKeepTyping(v, S, id) ==
  [S EXCEPT !.log = addMsg(v, S.log, NetErrText(v), "bot"),
            !.console = @ \cup {"error: fetch failed"},
            !.inflight = settle(@, id)]

\* the catch block as it would be if it reported the failure twice
catchTwice(v, S, id) ==
  [S EXCEPT !.log = addMsg(v, addMsg(v, removeTyping(v, S.log, id), NetErrText(v), "bot"),
                           NetErrText(v), "bot"),
            !.console = @ \cup {"error: fetch failed"},
            !.inflight = settle(@, id)]

\* the catch block as it would be if it only wrote to the console
catchSilent(v, S, id) ==
  [S EXCEPT !.log = removeTyping(v, S.log, id),
            !.console = @ \cup {"error: fetch failed"},
            !.inflight = settle(@, id)]

\* the catch block of sendMsg, on S = [log, console, inflight, cue, timers]
catch(v, S, id) ==
  [S EXCEPT !.log = addMsg(v, removeTyping(v, S.log, id), NetErrText(v), "bot"),
            !.console = @ \cup {"error: fetch failed"},
            !.inflight = settle(@, id)]

\* sendMsg as it would be if it left the bubble in place while reading the body
afterFetchKeepTyping(v, S, id, ct) ==
  IF ~includes(ct, "application/json")
  THEN [S EXCEPT !.log = addMsg(v, removeTyping(v, S.log, id), ExpiredText(v), "bot"),
                 !.console = IF v = "p0" THEN @ ELSE @ \cup {"warn: non-JSON response"},
                 !.inflight = settle(@, id)]
  ELSE [S EXCEPT !.inflight[id].stage = "json"]

\* sendMsg as it would be without the test of the content type
afterFetchUnchecked(v, S, id, ct) ==
  [S EXCEPT !.log = removeTyping(v, S.log, id), !.inflight[id].stage = "json"]

\* sendMsg from the fulfilment of fetch to its return or to `await res.json()`
afterFetch(v, S, id, ct) ==
  LET lg1 == removeTyping(v, S.log, id)
  IN  IF ~includes(ct, "application/json")
      THEN [S EXCEPT !.log = addMsg(v, lg1, ExpiredText(v), "bot"),
                     !.console = IF v = "p0" THEN @ ELSE @ \cup {"warn: non-JSON response"},
                     !.inflight = settle(@, id)]
      ELSE [S EXCEPT !.log = lg1, !.inflight[id].stage = "json"]

\* the text of the bot entry as it would be if reply came before reply_html
botTextReplyFirst(v, data) ==
  IF v = "p1" THEN data.reply
  ELSE OrElse(data.reply, OrElse(data.reply_html, <<>>))

\* the text of the bot entry for a parsed body
botText(v, data) ==
  IF v = "p1" THEN data.reply
  ELSE OrElse(data.reply_html, OrElse(data.reply, <<>>))

\* the choice of the cue as it would be without the tests of el and tb
cueTargetUnchecked(v, p, action) ==
  IF v = "p0" THEN ""
  ELSE IF action = "show_balance" THEN "balance-amount"
  ELSE IF action = "show_last_txns" THEN "txn-body"
  ELSE ""

\* the element a known action tag highlights, "" for no cue
cueTarget(v, p, action) ==
  IF v = "p0" THEN ""
  ELSE IF action = "show_balance" /\ "balance-amount" \in p THEN "balance-amount"
  ELSE IF action = "show_last_txns" /\ "txn-body" \in p THEN "txn-body"
  ELSE ""

\* the handling of the body as it would be if the reply were dropped
afterJsonDropped(v, p, S, id, data) == [S EXCEPT !.inflight = settle(@, id)]

\* sendMsg from the fulfilment of res.json() to its return
afterJson(v, p, S, id, data) ==
  IF data.isNull THEN catch(v, S, id)   \* data.reply throws TypeError
  ELSE LET t == cueTarget(v, p, data.action)
       IN  [S EXCEPT !.log = addMsg(v, S.log, botText(v, data), "bot"),
                     !.cue = IF t = "" THEN @ ELSE [@ EXCEPT ![t] = "on"],
                     !.timers = IF t = "" THEN @ ELSE [@ EXCEPT ![t] = @ + 1],
                     !.inflight = settle(@, id)]

\* the timer callback as it would be if it left the highlight in place
revertNever(v, c) == c

\* the callback given to setTimeout: "us" removes the class again, "p1" sets
\* the style to its resting value
revert(v, c) == IF v = "us" THEN "none" ELSE "reverted"

----------------------------------------------------------------------------
(* History: the kind of event the last step handled, the number of times its
   listeners called sendMsg, and what the event asks of the panel in the state
   machine of the panel: "open" for a FAB click and for Ctrl/Cmd+B, "close"
   for a close-button click and for Escape, "" for every other event *)

Ev(type, calls) == [type |-> type, calls |-> calls, panel |-> ""]
PanelEv(type, panel) == [type |-> type, calls |-> 0, panel |-> panel]

IsEscape(e) == e.key = "Escape"
IsCtrlB(e) == e.mod \in {"ctrl", "meta"} /\ e.key \in {"b", "B"}
keyPanel(e) == IF IsCtrlB(e) THEN "open" ELSE IF IsEscape(e) THEN "close" ELSE ""

\* the calls of sendMsg a key press in the input makes, 0 without a listener
keyCalls(v, ls, target, e) ==
  IF target = "chat-text" /\ "input.keydown" \in ls THEN sendCalls(v, e) ELSE 0

----------------------------------------------------------------------------
(* The state machine *)

PanelState == [hidden |-> panelHidden, greeted |-> greeted, focused |-> focused, log |-> log]
SendState == [log |-> log, input |-> input, inflight |-> inflight, nextId |-> nextId,
              posts |-> posts]
ReplyState == [log |-> log, console |-> console, inflight |-> inflight, cue |-> cue,
               timers |-> timers]

\* the pages a behaviour can start from: the full page, the bare page (the
\* five required elements, without the close button and the cue targets), and
\* the pages that lack one required element
Pages == {Elements, Required} \cup {Elements \ {r} : r \in Required}

Init ==
  /\ variant \in Variants
  /\ present \in Pages
  /\ listeners = ready(variant, present)
  /\ console = readyConsole(present)
  /\ panelHidden = TRUE
  /\ greeted = FALSE
  /\ focused = FALSE
  /\ log = <<>>
  /\ input = <<>>
  /\ inflight = [i \in {} |-> Request(<<>>, <<>>, TRUE)]
  /\ nextId = 1
  /\ posts = <<>>
  /\ cue = [t \in Targets |-> "none"]
  /\ timers = [t \in Targets |-> 0]
  /\ lastEvent = Ev("ready", 0)

Page == <<variant, present, listeners>>

\* the user edits the input field
TypeText(s) ==
  /\ "chat-text" \in present
  /\ input' = s
  /\ lastEvent' = Ev("input", 0)
  /\ UNCHANGED <<Page, console, panelHidden, greeted, focused, log, inflight, nextId,
                 posts, cue, timers>>

\* click on #chat-fab
FabClick ==
  /\ "chat-fab" \in present
  /\ LET P1 == IF "fab.click" \in listeners THEN openPanel(variant, PanelState)
               ELSE PanelState
     IN  /\ panelHidden' = P1.hidden
         /\ greeted' = P1.greeted
         /\ focused' = P1.focused
         /\ log' = P1.log
  /\ lastEvent' = PanelEv("fab.click", "open")
  /\ UNCHANGED <<Page, console, input, inflight, nextId, posts, cue, timers>>

\* click on #chat-close
CloseClick ==
  /\ "chat-close" \in present
  /\ LET P1 == IF "close.click" \in listeners THEN closePanel(PanelState) ELSE PanelState
     IN  /\ panelHidden' = P1.hidden
         /\ greeted' = P1.greeted
         /\ focused' = P1.focused
         /\ log' = P1.log
  /\ lastEvent' = PanelEv("close.click", "close")
  /\ UNCHANGED <<Page, console, input, inflight, nextId, posts, cue, timers>>

\* click on #chat-send
SendClick ==
  /\ "chat-send" \in present
  /\ LET W1 == IF "send.click" \in listeners THEN sendMsg(variant, SendState)
               ELSE SendState
     IN  /\ W1.nextId <= MaxSends + 1
         /\ log' = W1.log
         /\ input' = W1.input
         /\ inflight' = W1.inflight
         /\ nextId' = W1.nextId
         /\ posts' = W1.posts
  /\ lastEvent' = Ev("send.click", IF "send.click" \in listeners THEN 1 ELSE 0)
  /\ UNCHANGED <<Page, console, panelHidden, greeted, focused, cue, timers>>

\* a key press with the focus in the input field (target "chat-text") or
\* elsewhere on the page (target "document"); the event reaches the listener
\* of the input first and then bubbles to the listener of the document
Keydown(target, e) ==
  LET W1 == IF target = "chat-text" /\ "input.keydown" \in listeners
            THEN inputKeydown(variant, SendState, e) ELSE SendState
      P0 == [PanelState EXCEPT !.log = W1.log]
      P1 == IF "document.keydown" \in listeners THEN documentKeydown(variant, P0, e)
            ELSE P0
  IN  /\ target = "chat-text" => "chat-text" \in present
      /\ W1.nextId <= MaxSends + 1
      /\ input' = W1.input
      /\ inflight' = W1.inflight
      /\ nextId' = W1.nextId
      /\ posts' = W1.posts
      /\ panelHidden' = P1.hidden
      /\ greeted' = P1.greeted
      /\ focused' = P1.focused
      /\ log' = P1.log
      /\ lastEvent' = [Ev("keydown", keyCalls(variant, listeners, target, e))
                         EXCEPT !.panel = keyPanel(e)]
      /\ UNCHANGED <<Page, console, cue, timers>>

SetReply(S1) ==
  /\ log' = S1.log
  /\ console' = S1.console
  /\ inflight' = S1.inflight
  /\ cue' = S1.cue
  /\ timers' = S1.timers
  /\ UNCHANGED <<Page, panelHidden, greeted, focused, input, nextId, posts>>

\* the fetch of send number id is fulfilled with a response of content type ct
FetchFulfilled(id, ct) ==
  /\ id \in DOMAIN inflight
  /\ inflight[id].stage = "fetch"
  /\ SetReply(afterFetch(variant, ReplyState, id, ct))
  /\ lastEvent' = Ev("fetch.fulfilled", 0)

\* the fetch of send number id is rejected
FetchRejected(id) ==
  /\ id \in DOMAIN inflight
  /\ inflight[id].stage = "fetch"
  /\ SetReply(catch(variant, ReplyState, id))
  /\ lastEvent' = Ev("fetch.rejected", 0)

\* res.json() of send number id is fulfilled with the parsed body
JsonFulfilled(id, data) ==
  /\ id \in DOMAIN inflight
  /\ inflight[id].stage = "json"
  /\ SetReply(afterJson(variant, present, ReplyState, id, data))
  /\ lastEvent' = Ev("json.fulfilled", 0)

\* res.json() of send number id is rejected: the body is not valid JSON
JsonRejected(id) ==
  /\ id \in DOMAIN inflight
  /\ inflight[id].stage = "json"
  /\ SetReply(catch(variant, ReplyState, id))
  /\ lastEvent' = Ev("json.rejected", 0)

\* a setTimeout callback of a cue runs
TimerFires(t) ==
  /\ timers[t] > 0
  /\ timers' = [timers EXCEPT ![t] = @ - 1]
  /\ cue' = [cue EXCEPT ![t] = revert(variant, @)]
  /\ lastEvent' = Ev("timer", 0)
  /\ UNCHANGED <<Page, console, panelHidden, greeted, focused, log, input, inflight,
                 nextId, posts>>

Next ==
  \/ \E s \in Inputs : TypeText(s)
  \/ FabClick
  \/ CloseClick
  \/ SendClick
  \/ \E target \in {"chat-text", "document"}, e \in KeyPresses : Keydown(target, e)
  \/ \E id \in 1..MaxSends, ct \in ContentTypes : FetchFulfilled(id, ct)
  \/ \E id \in 1..MaxSends : FetchRejected(id)
  \/ \E id \in 1..MaxSends, data \in JsonValues : JsonFulfilled(id, data)
  \/ \E id \in 1..MaxSends : JsonRejected(id)
  \/ \E t \in Targets : TimerFires(t)

Spec == Init /\ [][Next]_vars

----------------------------------------------------------------------------
(* Vocabulary of the properties *)

\* the widget was initialised on a page with its five required elements
Enabled == Required \subseteq present

Last(lg) == lg[Len(lg)]

\* the number of nodes of lg that satisfy Test
Count(lg, Test(_)) == Cardinality({i \in 1..Len(lg) : Test(lg[i])})

IsGreeting(n) == n.cls = "msg bot" /\ n.text = GreetingText(variant)
IsUser(n) == n.cls = "msg me"
IsTyping(n) == n.cls = "msg bot typing"
IsExpired(n) == n.cls = "msg bot" /\ n.text = ExpiredText(variant)
IsNetErr(n) == n.cls = "msg bot" /\ n.text = NetErrText(variant)

\* the input holds nothing but whitespace
Blank(s) == \A i \in 1..Len(s) : s[i] = " "

----------------------------------------------------------------------------
(* C1: on an initialised widget the fixed greeting is in the log exactly once
   as soon as the panel has been opened and not at all before: the step that
   adds it is the first opening of the panel (a FAB click or a key press on a
   widget not yet greeted), no later step adds another one or removes it, and
   the greeted flag, once set, stays set. *)
C1_GreetingOnce ==
  /\ [](Enabled => /\ Count(log, IsGreeting) = (IF greeted THEN 1 ELSE 0)
                   /\ (~panelHidden => greeted))
  /\ [][Enabled =>
          /\ greeted => greeted'
          /\ (Count(log', IsGreeting) > Count(log, IsGreeting)) =>
                /\ ~greeted /\ ~panelHidden'
                /\ lastEvent'.type \in {"fab.click", "keydown"}
          /\ lastEvent'.type = "fab.click" => greeted']_vars

\* a FAB click on a widget already greeted was just handled and added nothing:
\* the greeting is not the last node of the log
C1_Witness ==
  /\ Enabled /\ greeted /\ lastEvent.type = "fab.click"
  /\ Len(log) >= 2 /\ ~IsGreeting(Last(log))
  /\ Count(log, IsGreeting) = 1

----------------------------------------------------------------------------
(* C2: a step whose listeners call sendMsg (a click on the send button, Enter
   in the input) while the input is empty or holds only whitespace changes
   nothing: the log, the input's content, the panel, the greeted flag, the
   in-flight requests and the POSTs issued are all as before. *)
C2_EmptySendNoOp ==
  [][(lastEvent'.calls > 0 /\ Blank(input)) =>
        UNCHANGED <<log, input, panelHidden, greeted, focused, inflight, nextId, posts,
                    cue, timers, console>>]_vars

\* the send button was just clicked on an initialised widget whose input holds
\* a blank: the blank is still there and nothing was posted
C2_Witness ==
  /\ lastEvent = Ev("send.click", 1)
  /\ input = <<" ">>
  /\ posts = <<>> /\ log = <<>>


----------------------------------------------------------------------------
\* send number id is the only send between its call and now: none was in
\* flight when it was called, none was made since, and no other step (the
\* first opening of the panel) has added a node to the log in between
Single(id) ==
  /\ DOMAIN inflight = {id}
  /\ inflight[id].alone
  /\ nextId = id + 1
  /\ Count(inflight[id].base, IsGreeting) = Count(log, IsGreeting)

\* the log is base followed by a user entry with text u and a bot entry with
\* text r, and nothing else
TwoMore(lg, base, u, r) ==
  /\ Len(lg) = Len(base) + 2
  /\ SubSeq(lg, 1, Len(base)) = base
  /\ lg[Len(base) + 1].cls = "msg me" /\ lg[Len(base) + 1].text = u
  /\ lg[Len(base) + 2].cls = "msg bot" /\ lg[Len(base) + 2].text = r

(* C3 as stated: for a single send whose response is JSON with the body
   {reply: r}, the log after the body is handled is the log before the send
   plus the user's text and then r. *)
C3_TwoEntriesAsStated ==
  [][\A id \in DOMAIN inflight, r \in Replies :
        (Single(id) /\ JsonFulfilled(id, [NoBody EXCEPT !.reply = r])) =>
           TwoMore(log', inflight[id].base, inflight[id].text, r)]_vars

(* C3 as amended: the same, except that the bot entry shows the placeholder
   "..." when r is the empty string; no typing bubble is left among the
   entries. *)
C3_TwoEntries ==
  [][\A id \in DOMAIN inflight, r \in Replies :
        (Single(id) /\ JsonFulfilled(id, [NoBody EXCEPT !.reply = r])) =>
           TwoMore(log', inflight[id].base, inflight[id].text,
                   IF r = <<>> THEN Ellipsis ELSE r)]_vars

\* the reply "42" to the only send so far was just rendered after its text
C3_Witness ==
  /\ lastEvent.type = "json.fulfilled"
  /\ nextId = 2 /\ inflight = <<>>
  /\ TwoMore(log, SubSeq(log, 1, Len(log) - 2), <<"a">>, <<"4", "2">>)

----------------------------------------------------------------------------
\* the media type of the header value is application/json
IsJsonType(ct) == ct # <<>> /\ ct[1] = "application/json"

(* C4: a step that handles a fetch fulfilled by a response without a JSON
   content type appends the fixed session-expired message and nothing else to
   the log (whatever the response holds), so that it is the last entry; it
   fires no cue and sets no timer, and the invocation returns: the send is no
   longer in flight. *)
C4_NonJsonExpired ==
  [][\A id \in DOMAIN inflight, ct \in ContentTypes :
        (~IsJsonType(ct) /\ FetchFulfilled(id, ct)) =>
           /\ log' # <<>> /\ IsExpired(Last(log'))
           /\ Count(log', IsExpired) = Count(log, IsExpired) + 1
           /\ Count(log', LAMBDA n : ~IsTyping(n)) = Count(log, LAMBDA n : ~IsTyping(n)) + 1
           /\ UNCHANGED <<cue, timers, posts>>
           /\ id \notin DOMAIN inflight']_vars

\* a non-JSON response was just handled and the log ends with the message
C4_Witness ==
  /\ lastEvent.type = "fetch.fulfilled"
  /\ log # <<>> /\ IsExpired(Last(log))

----------------------------------------------------------------------------
(* C5: a step that handles the rejection of a fetch appends the fixed
   network-error message, once, so that it is the last entry; it adds no other
   entry (no reply), fires no cue and sets no timer. *)
C5_RejectedNetErr ==
  [][\A id \in DOMAIN inflight :
        FetchRejected(id) =>
           /\ log' # <<>> /\ IsNetErr(Last(log'))
           /\ Count(log', IsNetErr) = Count(log, IsNetErr) + 1
           /\ Count(log', LAMBDA n : ~IsTyping(n)) = Count(log, LAMBDA n : ~IsTyping(n)) + 1
           /\ UNCHANGED <<cue, timers, posts>>
           /\ id \notin DOMAIN inflight']_vars

\* a rejected fetch was just handled and the log ends with the message
C5_Witness ==
  /\ lastEvent.type = "fetch.rejected"
  /\ log # <<>> /\ IsNetErr(Last(log))


----------------------------------------------------------------------------
(* C6: on a page that lacks one of the FAB, the panel, the send button, the
   text input or the message log, the widget has attached no listener, and
   whatever events are delivered the panel stays hidden, the log stays empty,
   the greeted flag stays unset and no POST is issued. *)
C6_MissingElementInert ==
  ~Enabled =>
     /\ listeners = {}
     /\ panelHidden /\ ~greeted /\ ~focused
     /\ log = <<>>
     /\ posts = <<>> /\ inflight = <<>> /\ nextId = 1

\* on a page without a required element the user has typed a text and just
\* clicked the send button
C6_Witness ==
  /\ ~Enabled
  /\ "chat-send" \in present
  /\ lastEvent.type = "send.click"
  /\ input = <<"a">>

----------------------------------------------------------------------------
(* C7 as stated: when any of the six elements #chat-fab, #chat-panel,
   #chat-close, #chat-send, #chat-text, #chat-log is missing, the close button
   alone included, no listener is attached. *)
C7_SixRequiredAsStated ==
  ~((Required \cup {"chat-close"}) \subseteq present) => listeners = {}

(* C7 as amended: the widget is disabled when one of the five elements
   #chat-fab, #chat-panel, #chat-send, #chat-text, #chat-log is missing; the
   close button is optional: on a page that lacks only #chat-close the FAB,
   send and keyboard listeners are attached (all but the close listener), and
   the widget opens and posts. *)
C7_CloseOptional ==
  /\ ~Enabled => listeners = {} /\ panelHidden /\ posts = <<>>
  /\ (Enabled /\ "chat-close" \notin present) =>
        /\ {"fab.click", "send.click", "input.keydown"} \subseteq listeners
        /\ "close.click" \notin listeners
        /\ (variant # "p0") => "document.keydown" \in listeners
        /\ lastEvent.type = "fab.click" => ~panelHidden
        /\ Len(posts) = nextId - 1

\* on a page without the close button the panel was opened by the FAB and a
\* message was posted
C7_Witness ==
  /\ Enabled /\ "chat-close" \notin present
  /\ ~panelHidden /\ greeted
  /\ Len(posts) > 0

----------------------------------------------------------------------------
(* C8: in the versions with keyboard shortcuts (user-script.js, part_001), on
   an initialised widget, a FAB click or a key press with Ctrl or Cmd and B
   leaves the panel open, a close-button click or an Escape key press leaves
   it closed, whatever it was before, and no other step (other key presses,
   typing, sends, responses, timers) changes it.  Since the panel starts
   closed, it is open exactly when the last of these panel events was an
   opening one. *)
C8_PanelStateMachine ==
  /\ (Enabled /\ lastEvent.type = "ready") => panelHidden
  /\ [][(Enabled /\ variant \in {"us", "p1"}) =>
          /\ lastEvent'.panel = "open" => ~panelHidden'
          /\ lastEvent'.panel = "close" => panelHidden'
          /\ lastEvent'.panel = "" => UNCHANGED panelHidden]_vars

\* a key press was just handled, the panel is open and the greeting is the
\* newest of several nodes of the log
C8_Witness ==
  /\ Enabled /\ variant \in {"us", "p1"}
  /\ lastEvent.type = "keydown" /\ lastEvent.panel = "open"
  /\ ~panelHidden
  /\ Len(log) >= 2 /\ IsGreeting(Last(log))


----------------------------------------------------------------------------
\* the page loads of a version with cues on the full page; there a pending
\* timer callback is eventually run
InitCues == Init /\ variant \in {"us", "p1"} /\ present = Elements
SpecTimers == InitCues /\ [][Next]_vars /\ \A t \in Targets : WF_vars(TimerFires(t))

\* the action tag that highlights target t
ActionOf(t) == IF t = "balance-amount" THEN "show_balance" ELSE "show_last_txns"

(* C9: in the versions with cues (user-script.js, part_001), a step that
   handles a JSON body with action show_balance on a page with
   #balance-amount turns the highlight of that element on and schedules one
   more revert timer; whenever a highlight is on, a revert timer for it is
   pending; and, timers being run by the browser, a highlight that is on is
   eventually off, also when responses overlap.  The same for show_last_txns
   and #txn-body. *)
C9_HighlightReverts ==
  /\ [](\A t \in Targets : cue[t] = "on" => timers[t] > 0)
  /\ [][lastEvent'.type = "json.fulfilled" =>
          \A id \in DOMAIN inflight, d \in Bodies, t \in Targets :
             ( /\ variant \in {"us", "p1"}
               /\ t \in present
               /\ d.action = ActionOf(t)
               /\ JsonFulfilled(id, d) ) =>
                  /\ cue'[t] = "on"
                  /\ timers'[t] = timers[t] + 1]_vars
  /\ \A t \in Targets : (cue[t] = "on") ~> (cue[t] # "on")

\* two responses with show_balance have overlapped: the highlight is on and
\* two revert timers are pending
C9_Witness ==
  /\ variant \in {"us", "p1"}
  /\ cue["balance-amount"] = "on"
  /\ timers["balance-amount"] = 2

----------------------------------------------------------------------------
(* C10: every step issues exactly as many POSTs as it makes calls of sendMsg
   that find a non-blank input: one, carrying the trimmed text, when its
   listeners call sendMsg on a non-blank input (the second call of a
   Ctrl/Cmd+Enter press finds the input cleared), none otherwise; in
   particular no response, rejection or timer step issues a POST.  A step that
   handles a failure (a rejected fetch, a non-JSON response, a body that
   cannot be read) ends the send: it is no longer in flight and no timer was
   set for it. *)
C10_OnePostPerSend ==
  /\ [](Enabled => Len(posts) = Count(log, IsUser))
  /\ [][ /\ (lastEvent'.calls > 0 /\ ~Blank(input)) =>
              posts' = Append(posts, [message |-> trim(input)])
         /\ ~(lastEvent'.calls > 0 /\ ~Blank(input)) => posts' = posts
         /\ lastEvent'.type \in {"fetch.rejected", "json.rejected"} =>
              /\ DOMAIN inflight' \subseteq DOMAIN inflight
              /\ Cardinality(DOMAIN inflight') = Cardinality(DOMAIN inflight) - 1
              /\ UNCHANGED <<timers, cue>>
         /\ (lastEvent'.type = "fetch.fulfilled" /\ log' # <<>> /\ IsExpired(Last(log'))
               /\ Count(log', IsExpired) > Count(log, IsExpired)) =>
              /\ Cardinality(DOMAIN inflight') = Cardinality(DOMAIN inflight) - 1
              /\ UNCHANGED <<timers, cue>> ]_vars

\* both sends of a page load have failed, the last by a rejected fetch: two
\* POSTs were issued and nothing is pending
C10_Witness ==
  /\ lastEvent.type = "fetch.rejected"
  /\ Len(posts) = MaxSends
  /\ inflight = <<>>
  /\ Count(log, IsNetErr) + Count(log, IsExpired) = MaxSends

----------------------------------------------------------------------------
\* the log is lg followed by one more node
OneMore(lg2, lg) == Len(lg2) = Len(lg) + 1 /\ SubSeq(lg2, 1, Len(lg)) = lg

\* the nodes addMsg builds for the bot (the typing bubble is not one of them)
IsBot(n) == n.cls = "msg bot"

(* C11 as stated: in user-script.js and part_000 the step that handles a
   parsed JSON body appends exactly one bot entry; it shows reply_html when
   the body carries one and reply when it does not. *)
C11_ReplyHtmlPreferredAsStated ==
  [][(variant \in {"us", "p0"} /\ lastEvent'.type = "json.fulfilled") =>
        \A id \in DOMAIN inflight, d \in Bodies :
           JsonFulfilled(id, d) =>
              /\ OneMore(log', log)
              /\ IsBot(Last(log'))
              /\ Last(log').text = (IF d.reply_html # <<>> THEN d.reply_html ELSE d.reply)]_vars

(* C11 as amended: in user-script.js and part_000 the step that handles a
   parsed JSON body appends exactly one bot entry, set as markup; it shows
   reply_html when the body carries a non-empty one, else reply when that is
   non-empty, else the placeholder "...". *)
C11_ReplyHtmlPreferred ==
  [][(variant \in {"us", "p0"} /\ lastEvent'.type = "json.fulfilled") =>
        \A id \in DOMAIN inflight, d \in Bodies :
           JsonFulfilled(id, d) =>
              /\ OneMore(log', log)
              /\ IsBot(Last(log')) /\ Last(log').markup
              /\ Last(log').text = (IF d.reply_html # <<>> THEN d.reply_html
                                    ELSE IF d.reply # <<>> THEN d.reply
                                    ELSE Ellipsis)]_vars

\* in a version that knows reply_html a parsed body was just handled and the
\* log ends with the markup of its reply_html
C11_Witness ==
  /\ variant \in {"us", "p0"}
  /\ lastEvent.type = "json.fulfilled"
  /\ log # <<>> /\ IsBot(Last(log)) /\ Last(log).markup
  /\ Last(log).text = <<"<b>42</b>">>

----------------------------------------------------------------------------
\* lg2 is lg followed by zero or more nodes
Extends(lg2, lg) == Len(lg) <= Len(lg2) /\ SubSeq(lg2, 1, Len(lg)) = lg

\* lg without the typing bubbles of the sends in D
Without(lg, D) == SelectSeq(lg, LAMBDA n : ~(IsTyping(n) /\ n.owner \in D))

(* C12 as stated: in every version every step leaves the entries of the log
   in place and in order: the log after the step is the log before it
   followed by zero or more entries. *)
C12_AppendOnlyAsStated ==
  [][Extends(log', log)]_vars

(* C12 as amended: in part_000 and part_001 every step leaves the log a
   prefix of the log after it.  In user-script.js the typing bubble is the one
   node that is ever taken out of the log: every step leaves the log, without
   at most one typing bubble of a send in flight, a prefix of the log after
   it, so that the user and bot entries are never removed or reordered. *)
C12_AppendOnly ==
  [][ /\ variant # "us" => Extends(log', log)
      /\ \E D \in SUBSET DOMAIN inflight :
            /\ Cardinality(D) <= 1
            /\ Extends(log', Without(log, D))
      /\ Extends(Without(log', DOMAIN inflight'), Without(log, DOMAIN inflight)) ]_vars

\* in user-script.js the response to the first of two sends was just received:
\* its typing bubble is gone from the middle of the log, the one of the second
\* send is still the last node
C12_Witness ==
  /\ variant = "us"
  /\ lastEvent.type = "fetch.fulfilled"
  /\ DOMAIN inflight = {1, 2}
  /\ inflight[1].stage = "json" /\ inflight[2].stage = "fetch"
  /\ Count(log, IsTyping) = 1
  /\ Last(log) = TypingNode(2)
  /\ Count(log, IsUser) = 2

----------------------------------------------------------------------------
\* the sends suspended at `await fetch(...)`: their fetch has not settled
AwaitingFetch == {id \in DOMAIN inflight : inflight[id].stage = "fetch"}

(* C13: in user-script.js, at every state, the typing bubbles in the log are
   those of the sends whose fetch has not settled, one for each: a send whose
   response was received (JSON or not) or whose fetch was rejected has no
   bubble left.  So the log holds no typing bubble when no request is in
   flight. *)
C13_TypingWhileFetching ==
  (variant = "us" /\ Enabled) =>
     /\ Count(log, IsTyping) = Cardinality(AwaitingFetch)
     /\ \A id \in DOMAIN inflight :
           Count(log, LAMBDA n : n = TypingNode(id)) = (IF id \in AwaitingFetch THEN 1 ELSE 0)
     /\ inflight = <<>> => Count(log, IsTyping) = 0

\* in user-script.js the fetch of one of two sends was just rejected: its
\* bubble is gone and the bubble of the other send, still awaiting its
\* response, is in the log
C13_Witness ==
  /\ variant = "us"
  /\ lastEvent.type = "fetch.rejected"
  /\ nextId = 3
  /\ Cardinality(AwaitingFetch) = 1
  /\ Count(log, IsTyping) = 1
  /\ IsNetErr(Last(log))

----------------------------------------------------------------------------
\* the user and bot entries of the log, without the typing bubbles
Msgs(lg) == SelectSeq(lg, LAMBDA n : ~IsTyping(n))

\* the sends whose sendMsg invocation returns in the step
Settled == DOMAIN inflight \ DOMAIN inflight'

(* C14: a step that calls sendMsg on a non-blank input adds a request to
   those in flight, however many there are, and leaves them as they were.  A
   request in flight can be settled whatever the state of the others: a
   response or a rejection can arrive for each send awaiting its fetch, a body
   or a failure to read it for each send awaiting its body.  Every step ends
   at most one send, leaves the other requests as they were, and appends the
   outcome entry (reply, session-expired or network-error message) of the
   send it ends at the end of the log: the outcome entries are in the order
   in which the responses were handled, not in the order of the sends. *)
C14_ConcurrentSends ==
  /\ [](\A id \in DOMAIN inflight :
          /\ inflight[id].stage = "fetch" =>
                /\ ENABLED FetchRejected(id)
                /\ \A ct \in ContentTypes : ENABLED FetchFulfilled(id, ct)
          /\ inflight[id].stage = "json" =>
                /\ ENABLED JsonRejected(id)
                /\ ENABLED JsonFulfilled(id, NoBody))
  /\ [][ /\ (lastEvent'.calls > 0 /\ ~Blank(input)) =>
              /\ nextId \notin DOMAIN inflight
              /\ DOMAIN inflight' = DOMAIN inflight \cup {nextId}
              /\ inflight'[nextId].stage = "fetch"
              /\ \A j \in DOMAIN inflight : inflight'[j] = inflight[j]
         /\ Cardinality(Settled) <= 1
         /\ \A id \in Settled :
              /\ \A j \in DOMAIN inflight \ {id} : inflight'[j] = inflight[j]
              /\ OneMore(Msgs(log'), Msgs(log))
              /\ IsBot(Last(Msgs(log')))
              /\ \A j \in DOMAIN inflight \ {id} :
                    Count(log', LAMBDA n : n = TypingNode(j))
                      = Count(log, LAMBDA n : n = TypingNode(j))
         /\ (Settled = {} /\ lastEvent'.calls = 0) =>
              /\ DOMAIN inflight' = DOMAIN inflight
              /\ Cardinality({j \in DOMAIN inflight : inflight'[j] # inflight[j]}) <= 1
              /\ Count(log', IsUser) = Count(log, IsUser) ]_vars

\* two sends were made and the second was answered first: its outcome is the
\* last entry of the log while the first send is still awaiting its response
C14_Witness ==
  /\ nextId = 3
  /\ DOMAIN inflight = {1}
  /\ inflight[1].stage = "fetch"
  /\ lastEvent.type \in {"fetch.fulfilled", "fetch.rejected", "json.fulfilled", "json.rejected"}
  /\ Count(log, IsUser) = 2
  /\ IsBot(Last(Msgs(log)))
  /\ Count(Msgs(log), IsBot) - Count(log, IsGreeting) = 1

----------------------------------------------------------------------------
\* the promise send number id is suspended on settles: the fetch is fulfilled
\* or rejected, or the body is read or fails to be read
PromiseSettles(id) ==
  \/ FetchRejected(id)
  \/ \E ct \in ContentTypes : FetchFulfilled(id, ct)
  \/ JsonRejected(id)
  \/ \E data \in JsonValues : JsonFulfilled(id, data)

\* the page loads of user-script.js on the full page, under the assumption
\* that every promise a send awaits eventually settles
InitFull == Init /\ variant = "us" /\ present = Elements
SpecSettles == InitFull /\ [][Next]_vars /\ \A id \in 1..MaxSends : WF_vars(PromiseSettles(id))

(* C15: a step that closes the panel (close-button click, Escape) leaves the
   requests in flight as they were, and a request in flight can be settled
   while the panel is hidden.  Provided every promise a send awaits settles,
   every send in flight is eventually no longer in flight, and the step that
   ends it appends exactly one outcome entry (reply, session-expired or
   network-error message) at the end of the log, after the user entry of the
   send, whether the panel is hidden or not; a send that has ended is never
   in flight again, so it gets no second outcome. *)
C15_EveryOneAnswered ==
  /\ [][ /\ (lastEvent'.panel = "close" /\ lastEvent'.calls = 0) => UNCHANGED <<inflight, posts>>
         /\ \A id \in Settled :
              /\ OneMore(Msgs(log'), Msgs(log))
              /\ IsBot(Last(Msgs(log'))) /\ ~IsGreeting(Last(Msgs(log')))
              /\ Extends(Msgs(log), Append(Msgs(inflight[id].base),
                                            MsgNode(variant, inflight[id].text, "me")))
              /\ UNCHANGED panelHidden
         /\ \A id \in 1..MaxSends :
              (id < nextId /\ id \notin DOMAIN inflight) => id \notin DOMAIN inflight' ]_vars
  /\ [](\A id \in DOMAIN inflight :
          panelHidden => (ENABLED FetchRejected(id) \/ ENABLED JsonRejected(id)))
  /\ \A id \in 1..MaxSends :
        (id \in DOMAIN inflight) ~> (id < nextId /\ id \notin DOMAIN inflight)

\* the only send so far was made before the panel was first opened; the panel
\* was then opened and closed again while the request was in flight, and the
\* reply was just rendered with the panel hidden
C15_Witness ==
  /\ Enabled /\ panelHidden /\ greeted
  /\ lastEvent.type = "json.fulfilled"
  /\ nextId = 2 /\ inflight = <<>>
  /\ Len(log) = 3
  /\ IsUser(log[1]) /\ IsGreeting(log[2]) /\ IsBot(log[3]) /\ ~IsGreeting(log[3])

----------------------------------------------------------------------------
\* the user entries of the log, in order
UserEntries(lg) == SelectSeq(lg, IsUser)

\* the nodes a send of text t appends: the user entry, set as plain text, and
\* in user-script.js the typing bubble after it
SendNodes(t, id) ==
  <<[cls |-> "msg me", text |-> t, markup |-> FALSE, owner |-> 0]>>
     \o (IF variant = "us" THEN <<TypingNode(id)>> ELSE <<>>)

(* C16: a step whose listeners call sendMsg on a non-blank input does all of
   this, and nothing else to the log, in that one step: it appends the
   trimmed text as a plain-text user entry and, in user-script.js, the typing
   bubble after it; it clears the input; it issues one POST with the body
   {message: <the trimmed text>} and is then suspended on the fetch.  No other
   step issues a POST, so at every state the POSTs issued are, one for one and
   in order, the texts of the user entries of the log. *)
C16_SendEffects ==
  /\ [](Enabled =>
          /\ Len(posts) = Len(UserEntries(log))
          /\ \A i \in 1..Len(posts) : posts[i].message = UserEntries(log)[i].text)
  /\ [][ /\ (lastEvent'.calls > 0 /\ ~Blank(input)) =>
              /\ log' = log \o SendNodes(trim(input), nextId)
              /\ input' = <<>>
              /\ posts' = Append(posts, [message |-> trim(input)])
              /\ nextId' = nextId + 1
              /\ nextId \in DOMAIN inflight'
              /\ inflight'[nextId].stage = "fetch"
              /\ inflight'[nextId].text = trim(input)
         /\ posts' # posts =>
              /\ lastEvent'.calls > 0
              /\ Len(posts') = Len(posts) + 1
              /\ Count(log', IsUser) = Count(log, IsUser) + 1 ]_vars

\* the user just pressed Enter on a non-blank input: the log ends with the
\* entry "a" (and its typing bubble), the input is empty, the POST carries "a"
\* and the send awaits its response
C16_Witness ==
  /\ lastEvent = [Ev("keydown", 1) EXCEPT !.panel = ""]
  /\ input = <<>>
  /\ posts = <<[message |-> <<"a">>]>>
  /\ Msgs(log) = <<MsgNode(variant, <<"a">>, "me")>>
  /\ DOMAIN inflight = {1} /\ inflight[1].stage = "fetch"

----------------------------------------------------------------------------
\* the action tag of body d asks for no cue on page p: it is absent or not one
\* of the two known tags, or the element it highlights is not on the page
NoCueFor(d, p) ==
  \/ d.action \notin {"show_balance", "show_last_txns"}
  \/ d.action = "show_balance" /\ "balance-amount" \notin p
  \/ d.action = "show_last_txns" /\ "txn-body" \notin p

(* C17: a step that handles a parsed JSON body (an object) whose action is
   absent or is anything but show_balance and show_last_txns, or whose action
   names a cue whose element is not on the page, leaves the highlights and the
   pending timers as they were; it appends the bot reply to the log (the
   reply_html, the reply or the placeholder "...") and no network-error or
   session-expired message, and ends the send. *)
C17_UnknownActionNoCue ==
  [][lastEvent'.type = "json.fulfilled" =>
        \A id \in DOMAIN inflight, d \in Bodies :
           (NoCueFor(d, present) /\ JsonFulfilled(id, d)) =>
              /\ UNCHANGED <<cue, timers>>
              /\ OneMore(log', log)
              /\ IsBot(Last(log'))
              /\ Last(log').text \in ({d.reply_html, d.reply} \ {<<>>}) \cup {Ellipsis}
              /\ d.reply # <<>> => Last(log').text # Ellipsis
              /\ ~IsNetErr(Last(log')) /\ ~IsExpired(Last(log'))
              /\ id \notin DOMAIN inflight']_vars

\* on a page without #balance-amount and #txn-body, in a version with cues, a
\* body was just handled: its reply is the last entry, no highlight is on and
\* no timer is pending
C17_Witness ==
  /\ variant \in {"us", "p1"}
  /\ Enabled /\ present \cap Targets = {}
  /\ lastEvent.type = "json.fulfilled"
  /\ log # <<>> /\ IsBot(Last(log)) /\ Last(log).text = <<"4", "2">>
  /\ \A t \in Targets : cue[t] = "none" /\ timers[t] = 0

----------------------------------------------------------------------------
(* C18: in user-script.js a step that handles one key press issues at most
   one POST and appends at most one user entry.  A press of Enter with Ctrl or
   Cmd (and without Shift) makes the keydown listener of the input call
   sendMsg twice: on a non-blank input the step issues exactly one POST,
   appends exactly one user entry, puts one more request in flight and leaves
   the input empty, as a plain Enter does; on a blank input it does nothing. *)
C18_OnePostPerKeyPress ==
  [][(variant = "us" /\ lastEvent'.type = "keydown") =>
        /\ Len(posts') <= Len(posts) + 1
        /\ Count(log', IsUser) <= Count(log, IsUser) + 1
        /\ nextId' <= nextId + 1
        /\ lastEvent'.calls = 2 =>
              IF Blank(input)
              THEN UNCHANGED <<log, input, posts, inflight, nextId>>
              ELSE /\ posts' = Append(posts, [message |-> trim(input)])
                   /\ Count(log', IsUser) = Count(log, IsUser) + 1
                   /\ DOMAIN inflight' = DOMAIN inflight \cup {nextId}
                   /\ nextId' = nextId + 1
                   /\ input' = <<>> ]_vars

\* in user-script.js a key press that made the listener call sendMsg twice was
\* just handled: there is one user entry, one POST and one request in flight
C18_Witness ==
  /\ variant = "us"
  /\ lastEvent.type = "keydown" /\ lastEvent.calls = 2
  /\ input = <<>>
  /\ Len(posts) = 1 /\ Count(log, IsUser) = 1
  /\ DOMAIN inflight = {1} /\ nextId = 2

----------------------------------------------------------------------------
(* C19: a step that handles the failure of res.json() (the response has a
   JSON content type but its body cannot be parsed) appends the fixed
   network-error message to the log and nothing else: the log after the step
   is the log before it followed by that one message, so no reply is rendered
   and, in user-script.js, the second typing.remove() finds the bubble of the
   send already gone and removes nothing.  The step fires no cue, sets no
   timer and ends the send.  At every state a send awaiting its body has no
   typing bubble in the log. *)
C19_UnreadableBody ==
  /\ [](\A id \in DOMAIN inflight :
          inflight[id].stage = "json" => Count(log, LAMBDA n : n = TypingNode(id)) = 0)
  /\ [][\A id \in DOMAIN inflight :
          JsonRejected(id) =>
             /\ OneMore(log', log)
             /\ IsNetErr(Last(log'))
             /\ removeTyping(variant, log, id) = log
             /\ Count(log', IsNetErr) = Count(log, IsNetErr) + 1
             /\ UNCHANGED <<cue, timers, posts>>
             /\ id \notin DOMAIN inflight']_vars

\* in user-script.js the body of the response to the only send could not be
\* read: the log ends with the network-error message, holds no typing bubble
\* and no other bot entry than the greeting, and nothing is in flight
C19_Witness ==
  /\ variant = "us"
  /\ lastEvent.type = "json.rejected"
  /\ nextId = 2 /\ inflight = <<>>
  /\ IsNetErr(Last(log))
  /\ Count(log, IsTyping) = 0
  /\ Count(log, IsBot) = 1 + Count(log, IsGreeting)

----------------------------------------------------------------------------
\* an outcome entry: a reply, a session-expired or a network-error message
\* (a bot entry other than the greeting; typing bubbles are not bot entries)
IsOutcome(n) == IsBot(n) /\ ~IsGreeting(n)

(* C20: at every state of an initialised widget the number of user entries in
   the log is the number of outcome entries (replies, session-expired and
   network-error messages) plus the number of requests in flight, and all
   the sends made are counted so; up to any point of the log there are at
   least as many user entries as outcome entries, so that every outcome entry
   has the user entry of its send before it. *)
C20_UsersOutcomesInFlight ==
  Enabled =>
     /\ Count(log, IsUser) = Count(log, IsOutcome) + Cardinality(DOMAIN inflight)
     /\ Count(log, IsUser) = nextId - 1
     /\ Count(log, IsOutcome) <= Count(log, IsUser)
     /\ \A k \in 1..Len(log) :
           Count(SubSeq(log, 1, k), IsOutcome) <= Count(SubSeq(log, 1, k), IsUser)

\* after the greeting two sends were made; one has its outcome in the log and
\* the other is still in flight
C20_Witness ==
  /\ Enabled /\ greeted
  /\ IsGreeting(log[1])
  /\ Count(log, IsUser) = 2
  /\ Count(log, IsOutcome) = 1
  /\ Cardinality(DOMAIN inflight) = 1

====
